---- MODULE Spec2Model ----
(***************************************************************************)
(* Model of gen.go, the githubql code generator: run() fetches the GraphQL *)
(* introspection document, renders the templates enum.go and input.go      *)
(* against it, formats each rendered buffer and writes it to disk.         *)
(*                                                                         *)
(* Text is modelled as a sequence of byte codes (ASCII), so that Go's      *)
(* string comparison, HasPrefix and s[1:] are computed, not assumed.       *)
(***************************************************************************)
EXTENDS Integers, Sequences, FiniteSets, TLC

\* ------------------------------------------------------------------ bounds
MaxDepth == 3        \* nesting depth of a type reference (SpecType)
MaxTypes == 3        \* length of data.__schema.types   (SpecRender)
MaxFields == 3       \* length of an inputFields list   (SpecRender)
RunMaxTypes == 2     \* length of data.__schema.types   (Spec)
RunMaxFields == 2    \* length of an inputFields list   (Spec)

\* ------------------------------------------------------------- byte codes
Star == 42           \* '*'
LBracket == 91       \* '['
RBracket == 93       \* ']'
Underscore == 95     \* '_'
DQuote == 34         \* '"'

\* ---------------------------------------------------------------- strings
\* Go's s < t on strings: bytewise lexicographic order.
RECURSIVE StrLess(_, _)
StrLess(s, t) ==
    IF t = <<>> THEN FALSE
    ELSE IF s = <<>> THEN TRUE
    ELSE IF Head(s) # Head(t) THEN Head(s) < Head(t)
    ELSE StrLess(Tail(s), Tail(t))

\* strings.HasPrefix(s, p)
HasPrefix(s, p) == Len(s) >= Len(p) /\ SubSeq(s, 1, Len(p)) = p

\* strconv.Quote on a name made of letters, digits and underscores.
quote(s) == <<DQuote>> \o s \o <<DQuote>>

\* ------------------------------------------------- type-string resolver
\* A type reference is [kind, name, ofType]; ofType is <<>> (JSON null) or
\* <<inner>>.  The result is [ok, s]: ok = FALSE is the resolver's panic.
Named(k, n) == [kind |-> k, name |-> n, ofType |-> <<>>]
NonNull(x) == [kind |-> "NON_NULL", name |-> <<>>, ofType |-> <<x>>]
List(x) == [kind |-> "LIST", name |-> <<>>, ofType |-> <<x>>]

Panicked == [ok |-> FALSE, s |-> <<>>]
Resolved(s) == [ok |-> TRUE, s |-> s]

RECURSIVE typeStringListNoStar(_)
typeStringListNoStar(t) ==
    IF t.kind = "NON_NULL" THEN
        LET r == typeStringListNoStar(t.ofType[1])
        IN  IF ~r.ok THEN Panicked
            ELSE IF ~HasPrefix(r.s, <<Star>>) THEN Panicked
            ELSE Resolved(Tail(r.s))
    ELSE IF t.kind = "LIST" THEN
        LET r == typeStringListNoStar(t.ofType[1])
        IN  IF ~r.ok THEN Panicked
            ELSE Resolved(<<LBracket, RBracket>> \o r.s)
    ELSE Resolved(<<Star>> \o t.name)

RECURSIVE typeString(_)
typeString(t) ==
    IF t.kind = "NON_NULL" THEN
        LET r == typeString(t.ofType[1])
        IN  IF ~r.ok THEN Panicked
            ELSE IF ~HasPrefix(r.s, <<Star>>) THEN Panicked
            ELSE Resolved(Tail(r.s))
    ELSE IF t.kind = "LIST" THEN
        LET r == typeString(t.ofType[1])
        IN  IF ~r.ok THEN Panicked
            ELSE Resolved(<<Star, LBracket, RBracket>> \o r.s)
    ELSE Resolved(<<Star>> \o t.name)

\* --------------------------------------------------------- template helpers
\* "internal": strings.HasPrefix(s, "__")
internal(s) == HasPrefix(s, <<Underscore, Underscore>>)

\* sort.Slice(types, less-by-name): the sorted arrangement of the slice.
RECURSIVE insertByNameDrop(_, _)
insertByNameDrop(x, s) ==
    IF s = <<>> THEN <<x>>
    ELSE IF StrLess(x.name, Head(s).name) THEN <<x>> \o Tail(s)
    ELSE <<Head(s)>> \o insertByNameDrop(x, Tail(s))

RECURSIVE insertByName(_, _)
insertByName(x, s) ==
    IF s = <<>> THEN <<x>>
    ELSE IF StrLess(x.name, Head(s).name) THEN <<x>> \o s
    ELSE <<Head(s)>> \o insertByName(x, Tail(s))

sortByNameUnsorted(types) == types

RECURSIVE sortByName(_)
sortByName(types) ==
    IF types = <<>> THEN <<>>
    ELSE insertByName(Head(types), sortByName(Tail(types)))

\* "inputObjects": names of the INPUT_OBJECT types, sort.Strings'ed.
RECURSIVE insertStr(_, _)
insertStr(x, s) ==
    IF s = <<>> THEN <<x>>
    ELSE IF StrLess(x, Head(s)) THEN <<x>> \o s
    ELSE <<Head(s)>> \o insertStr(x, Tail(s))

RECURSIVE inputObjects(_)
inputObjects(types) ==
    IF types = <<>> THEN <<>>
    ELSE IF Head(types).kind = "INPUT_OBJECT"
         THEN insertStr(Head(types).name, inputObjects(Tail(types)))
         ELSE inputObjects(Tail(types))

\* ------------------------------------------------------------- templates
\* A rendered buffer is [file, summary, decls]; a declaration is
\* [name, members]; a member is [name, text, required]: for an enum constant
\* the value's name and its quoted literal, for a struct field the json name
\* and the resolved type string.
IsEnum(t) == t.kind = "ENUM"
IsInputObject(t) == t.kind = "INPUT_OBJECT"
IsRequired(f) == f.type.kind = "NON_NULL"
IsOptional(f) == f.type.kind # "NON_NULL"

\* {{if and (eq .kind "ENUM") (not (internal .name))}}
EnumQualifiesAnyName(t) == IsEnum(t)

EnumQualifies(t) == IsEnum(t) /\ ~internal(t.name)

\* {{if eq .kind "INPUT_OBJECT"}}
InputQualifies(t) == IsInputObject(t)

\* {{define "enum"}}: one constant per enum value, in the schema's order.
EnumDecl(t) ==
    [name |-> t.name,
     members |-> [i \in 1..Len(t.enumValues) |->
                    [name |-> t.enumValues[i],
                     text |-> quote(t.enumValues[i]),
                     required |-> FALSE]]]

\* {{define "inputObject"}}: the NON_NULL fields, then the others.
InputFieldsSchemaOrder(t) == t.inputFields

InputFields(t) ==
    SelectSeq(t.inputFields, IsRequired) \o SelectSeq(t.inputFields, IsOptional)

FieldPanics(f) == ~typeString(f.type).ok

InputDecl(t) ==
    LET fs == InputFields(t)
    IN  [name |-> t.name,
         members |-> [i \in 1..Len(fs) |->
                        [name |-> fs[i].name,
                         text |-> typeString(fs[i].type).s,
                         required |-> IsRequired(fs[i])]]]

MapSeq(Op(_), s) == [i \in 1..Len(s) |-> Op(s[i])]

NoBuffer == [file |-> "", summary |-> <<>>, decls |-> <<>>]

\* t.Execute(&buf, schema): [err, panic, out, doc]; doc is the schema
\* document as Execute leaves it (sortByName sorts the slice it is given).
ExecuteTemplate(file, doc) ==
    IF ~doc.hasData
    THEN [err |-> TRUE, panic |-> FALSE, out |-> NoBuffer, doc |-> doc]
    ELSE
    LET sorted == sortByName(doc.types)
        after == [doc EXCEPT !.types = sorted]
    IN  IF file = "enum.go"
        THEN [err |-> FALSE, panic |-> FALSE,
              out |-> [file |-> file, summary |-> <<>>,
                       decls |-> MapSeq(EnumDecl, SelectSeq(sorted, EnumQualifies))],
              doc |-> after]
        ELSE LET objs == SelectSeq(sorted, InputQualifies)
                 bad == \E i \in 1..Len(objs) :
                           \E j \in 1..Len(objs[i].inputFields) :
                              FieldPanics(objs[i].inputFields[j])
             IN  IF bad
                 THEN [err |-> TRUE, panic |-> TRUE, out |-> NoBuffer, doc |-> after]
                 ELSE [err |-> FALSE, panic |-> FALSE,
                       out |-> [file |-> file,
                                summary |-> inputObjects(doc.types),
                                decls |-> MapSeq(InputDecl, objs)],
                       doc |-> after]

\* ------------------------------------------------------------ input domain
NameA == <<65>>
NameB == <<66>>
NameC == <<67>>
NameAB == <<65, 66>>
NameUA == <<Underscore, Underscore, 65>>
NameUB == <<Underscore, Underscore, 66>>
NameSB == <<Underscore, 66>>
NameInt == <<73, 110, 116>>
ValOpen == <<79, 80, 69, 78>>
ValClosed == <<67, 76, 79, 83, 69, 68>>

IntType == Named("SCALAR", NameInt)

\* Input field descriptors: [name, type].
FieldA == [name |-> <<97>>, type |-> NonNull(IntType)]
FieldB == [name |-> <<98>>, type |-> IntType]
FieldC == [name |-> <<99>>, type |-> List(NonNull(IntType))]
FieldD == [name |-> <<100>>, type |-> NonNull(List(IntType))]
FieldE == [name |-> <<101>>, type |-> NonNull(NonNull(IntType))]

\* Sequences over S of length at most n without repetition.
SeqsNoDup(S, n) ==
    UNION {{s \in [1..k -> S] : \A i, j \in 1..k : i # j => s[i] # s[j]} : k \in 0..n}

\* The type descriptor of a name: [kind, name, enumValues, inputFields];
\* the input object C carries the field list under test.
Descriptor(n, cfields) ==
    [kind |-> IF n \in {NameC, NameAB, NameUB} THEN "INPUT_OBJECT"
              ELSE IF n = NameInt THEN "SCALAR" ELSE "ENUM",
     name |-> n,
     enumValues |-> IF n = NameB THEN <<ValOpen, ValClosed>>
                    ELSE IF n \in {NameA, NameUA} THEN <<ValClosed, ValOpen>>
                    ELSE <<>>,
     inputFields |-> IF n = NameC THEN cfields
                     ELSE IF n = NameAB THEN <<FieldB>> ELSE <<>>]

\* Schema documents: type lists of distinct names, in any order.
Docs(names, fields, nt, nf) ==
    {[hasData |-> TRUE, types |-> [i \in 1..Len(ns) |-> Descriptor(ns[i], fl)]] :
        ns \in SeqsNoDup(names, nt), fl \in SeqsNoDup(fields, nf)}

RenderDocs ==
    Docs({NameA, NameB, NameC, NameAB, NameUA, NameUB, NameSB},
         {FieldA, FieldB, FieldC, FieldD}, MaxTypes, MaxFields)

\* A decoded body without data.__schema (an error reply): rendering fails.
NoDataDoc == [hasData |-> FALSE, types |-> <<>>]

RunDocs ==
    Docs({NameA, NameB, NameC, NameUB}, {FieldA, FieldB, FieldE},
         RunMaxTypes, RunMaxFields)
      \cup {NoDataDoc}

\* What the endpoint answers: a transport error, a body that is not JSON,
\* or a JSON document.
Responses ==
    {[status |-> "transportError", doc |-> NoDataDoc],
     [status |-> "malformedJSON", doc |-> NoDataDoc]}
      \cup {[status |-> "ok", doc |-> d] : d \in RunDocs}

RECURSIVE TypeRefs(_)
TypeRefs(d) ==
    IF d = 0
    THEN {IntType, Named("ENUM", NameB), Named("INPUT_OBJECT", NameC)}
    ELSE TypeRefs(d - 1) \cup {NonNull(x) : x \in TypeRefs(d - 1)}
                         \cup {List(x) : x \in TypeRefs(d - 1)}

Files == {"enum.go", "input.go"}

\* ------------------------------------------------------------------ state
VARIABLES
    token,      \* GITHUB_TOKEN: "unset", "empty" (set to "") or "nonempty"
    response,   \* what the endpoint answers to the GET
    run,        \* "first" or "second" invocation of the generator
    prev,       \* [fail, written] of the first invocation, once it has ended
    pc,         \* position in run()
    status,     \* process exit status, meaningful when pc = "done"
    errKind,    \* the error that ended the run, "none" otherwise
    netCalls,   \* requests issued by this invocation
    decodes,    \* bodies decoded by this invocation
    schema,     \* <<>> before loadSchema returns, <<doc>> after
    remaining,  \* map entries the range loop has not visited yet
    cur,        \* filename of the current loop iteration
    cycle,      \* number of loop iterations begun
    failCycle,  \* iteration in which the run failed, 0 if none
    buf,        \* the rendered buffer of the current iteration
    out,        \* the payload handed to WriteFile
    rendered,   \* files whose template this invocation executed
    fmtFailed,  \* files whose buffer format.Source rejected
    written,    \* files for which WriteFile returned nil
    fs,         \* the working directory: file -> content
    fsStart,    \* the working directory when this invocation began
    rdoc, rfile, rbuf,   \* SpecRender: document, template applied, its output
    tref, tres, tnn      \* SpecType: reference, type(tref), type(NON_NULL(tref))

envVars == <<token, response>>
loopVars == <<remaining, cur, cycle>>
renderVars == <<rdoc, rfile, rbuf>>
typeVars == <<tref, tres, tnn>>
vars == <<token, response, run, prev, pc, status, errKind, netCalls, decodes,
          schema, remaining, cur, cycle, failCycle, buf, out, rendered,
          fmtFailed, written, fs, fsStart, rdoc, rfile, rbuf, tref, tres, tnn>>

\* File contents.
Absent == [kind |-> "absent", body |-> NoBuffer]
Partial == [kind |-> "partial", body |-> NoBuffer]
\* format.Source(b): the canonical formatting of b.
Formatted(b) == [kind |-> "formatted", body |-> b]
\* "// gofmt error: " + err.Error() + "\n\n" + buf.String()
Degraded(b) == [kind |-> "degraded", body |-> b]

NoPrev == [fail |-> 0, written |-> {}]

RenderIdle == rdoc = NoDataDoc /\ rfile = "" /\ rbuf = NoBuffer
TypeIdle == tref = IntType /\ tres = <<>> /\ tnn = <<>>

\* The state of a process that has just entered main().
Fresh ==
    /\ pc = "start" /\ status = 0 /\ errKind = "none"
    /\ netCalls = 0 /\ decodes = 0 /\ schema = <<>>
    /\ remaining = {} /\ cur = "" /\ cycle = 0 /\ failCycle = 0
    /\ buf = NoBuffer /\ out = Absent
    /\ rendered = {} /\ fmtFailed = {} /\ written = {}

Init ==
    /\ token \in {"unset", "empty", "nonempty"}
    /\ response \in Responses
    /\ run = "first" /\ prev = NoPrev
    /\ Fresh
    /\ fs = [f \in Files |-> Absent] /\ fsStart = fs
    /\ RenderIdle /\ TypeIdle

\* return err from run(); main: log.Fatalln(err), exit status 1.
Fail(kind, code) ==
    /\ pc' = "done" /\ status' = code /\ errKind' = kind /\ failCycle' = cycle

\* ---------------------------------------------------------------- run()
\* os.LookupEnv("GITHUB_TOKEN"): ok is false only when the variable is unset.
LookupTokenNoCheck ==
    /\ pc = "start"
    /\ pc' = "request"
    /\ UNCHANGED <<status, errKind, failCycle>>
    /\ UNCHANGED <<envVars, run, prev, netCalls, decodes, schema, loopVars, buf,
                   out, rendered, fmtFailed, written, fs, fsStart, renderVars, typeVars>>

LookupToken ==
    /\ pc = "start"
    /\ IF token = "unset"
       THEN Fail("config", 1)
       ELSE pc' = "request" /\ UNCHANGED <<status, errKind, failCycle>>
    /\ UNCHANGED <<envVars, run, prev, netCalls, decodes, schema, loopVars, buf,
                   out, rendered, fmtFailed, written, fs, fsStart, renderVars, typeVars>>

\* loadSchema: http.DefaultClient.Do(req)
SendRequest ==
    /\ pc = "request"
    /\ netCalls' = netCalls + 1
    /\ IF response.status = "transportError"
       THEN Fail("transport", 1)
       ELSE pc' = "decode" /\ UNCHANGED <<status, errKind, failCycle>>
    /\ UNCHANGED <<envVars, run, prev, decodes, schema, loopVars, buf,
                   out, rendered, fmtFailed, written, fs, fsStart, renderVars, typeVars>>

\* loadSchema: json.NewDecoder(resp.Body).Decode(&schema); run: range templates
DecodeBodyIgnoreErr ==
    /\ pc = "decode"
    /\ decodes' = decodes + 1
    /\ schema' = <<response.doc>> /\ remaining' = Files /\ pc' = "loop"
    /\ UNCHANGED <<status, errKind, failCycle>>
    /\ UNCHANGED <<envVars, run, prev, netCalls, cur, cycle, buf,
                   out, rendered, fmtFailed, written, fs, fsStart, renderVars, typeVars>>

DecodeBody ==
    /\ pc = "decode"
    /\ decodes' = decodes + 1
    /\ IF response.status = "malformedJSON"
       THEN Fail("decode", 1) /\ UNCHANGED <<schema, remaining>>
       ELSE /\ schema' = <<response.doc>> /\ remaining' = Files /\ pc' = "loop"
            /\ UNCHANGED <<status, errKind, failCycle>>
    /\ UNCHANGED <<envVars, run, prev, netCalls, cur, cycle, buf,
                   out, rendered, fmtFailed, written, fs, fsStart, renderVars, typeVars>>

\* for filename, t := range templates: the next entry, in map iteration order.
NextTemplateSkipRest ==
    /\ pc = "loop" /\ remaining # {}
    /\ \E f \in remaining :
          cur' = f /\ remaining' = {}
    /\ cycle' = cycle + 1 /\ pc' = "execute"
    /\ UNCHANGED <<envVars, run, prev, status, errKind, netCalls, decodes, schema,
                   failCycle, buf, out, rendered, fmtFailed, written, fs, fsStart,
                   renderVars, typeVars>>

NextTemplate ==
    /\ pc = "loop" /\ remaining # {}
    /\ \E f \in remaining :
          cur' = f /\ remaining' = remaining \ {f}
    /\ cycle' = cycle + 1 /\ pc' = "execute"
    /\ UNCHANGED <<envVars, run, prev, status, errKind, netCalls, decodes, schema,
                   failCycle, buf, out, rendered, fmtFailed, written, fs, fsStart,
                   renderVars, typeVars>>

\* return nil; main returns, exit status 0.
ReturnNil ==
    /\ pc = "loop" /\ remaining = {}
    /\ pc' = "done" /\ status' = 0
    /\ UNCHANGED <<envVars, run, prev, errKind, netCalls, decodes, schema, loopVars,
                   failCycle, buf, out, rendered, fmtFailed, written, fs, fsStart,
                   renderVars, typeVars>>

\* err := t.Execute(&buf, schema), no error.
ExecuteOK ==
    /\ pc = "execute"
    /\ LET r == ExecuteTemplate(cur, schema[1])
       IN  /\ ~r.err
           /\ schema' = <<r.doc>> /\ buf' = r.out
    /\ rendered' = rendered \cup {cur} /\ pc' = "format"
    /\ UNCHANGED <<envVars, run, prev, status, errKind, netCalls, decodes, loopVars,
                   failCycle, out, fmtFailed, written, fs, fsStart,
                   renderVars, typeVars>>

\* t.Execute returns an error: return err.
ExecuteErrContinue ==
    /\ pc = "execute"
    /\ LET r == ExecuteTemplate(cur, schema[1])
       IN  r.err /\ schema' = <<r.doc>>
    /\ rendered' = rendered \cup {cur}
    /\ pc' = "loop"
    /\ UNCHANGED <<envVars, run, prev, status, errKind, netCalls, decodes, loopVars,
                   failCycle, buf, out, fmtFailed, written, fs, fsStart,
                   renderVars, typeVars>>

ExecuteErr ==
    /\ pc = "execute"
    /\ LET r == ExecuteTemplate(cur, schema[1])
       IN  r.err /\ schema' = <<r.doc>>
    /\ rendered' = rendered \cup {cur}
    /\ Fail("render", 1)
    /\ UNCHANGED <<envVars, run, prev, netCalls, decodes, loopVars,
                   buf, out, fmtFailed, written, fs, fsStart,
                   renderVars, typeVars>>

\* typeString panics and the template package lets the panic through
\* (it recovers panics of template functions only in later releases):
\* the process dies with exit status 2.
ExecutePanic ==
    /\ pc = "execute"
    /\ LET r == ExecuteTemplate(cur, schema[1])
       IN  r.panic /\ schema' = <<r.doc>>
    /\ rendered' = rendered \cup {cur}
    /\ Fail("panic", 2)
    /\ UNCHANGED <<envVars, run, prev, netCalls, decodes, loopVars,
                   buf, out, fmtFailed, written, fs, fsStart,
                   renderVars, typeVars>>

\* out, err := format.Source(buf.Bytes()), no error.
FormatOK ==
    /\ pc = "format"
    /\ out' = Formatted(buf) /\ pc' = "write"
    /\ UNCHANGED <<envVars, run, prev, status, errKind, netCalls, decodes, schema,
                   loopVars, failCycle, buf, rendered, fmtFailed, written, fs,
                   fsStart, renderVars, typeVars>>

\* format.Source fails: log.Println(err), out = comment + raw buffer.
FormatErrorAbort ==
    /\ pc = "format"
    /\ fmtFailed' = fmtFailed \cup {cur}
    /\ Fail("format", 1)
    /\ UNCHANGED <<envVars, run, prev, netCalls, decodes, schema,
                   loopVars, buf, out, rendered, written, fs,
                   fsStart, renderVars, typeVars>>

FormatError ==
    /\ pc = "format"
    /\ out' = Degraded(buf) /\ fmtFailed' = fmtFailed \cup {cur} /\ pc' = "write"
    /\ UNCHANGED <<envVars, run, prev, status, errKind, netCalls, decodes, schema,
                   loopVars, failCycle, buf, rendered, written, fs,
                   fsStart, renderVars, typeVars>>

\* ioutil.WriteFile(filename, out, 0644), no error.
WriteFileOK ==
    /\ pc = "write"
    /\ fs' = [fs EXCEPT ![cur] = out] /\ written' = written \cup {cur}
    /\ pc' = "loop"
    /\ UNCHANGED <<envVars, run, prev, status, errKind, netCalls, decodes, schema,
                   loopVars, failCycle, buf, out, rendered, fmtFailed,
                   fsStart, renderVars, typeVars>>

\* ioutil.WriteFile fails: the file is as it was (the open failed) or
\* truncated and partly written; return err.
WriteFileErr ==
    /\ pc = "write"
    /\ \E c \in {fs[cur], Partial} : fs' = [fs EXCEPT ![cur] = c]
    /\ Fail("write", 1)
    /\ UNCHANGED <<envVars, run, prev, netCalls, decodes, schema,
                   loopVars, buf, out, rendered, fmtFailed, written,
                   fsStart, renderVars, typeVars>>

\* The maintainer invokes the generator again, in the same directory and
\* against the same endpoint.
Rerun ==
    /\ pc = "done" /\ run = "first"
    /\ run' = "second" /\ prev' = [fail |-> failCycle, written |-> written]
    /\ pc' = "start" /\ status' = 0 /\ errKind' = "none"
    /\ netCalls' = 0 /\ decodes' = 0 /\ schema' = <<>>
    /\ remaining' = {} /\ cur' = "" /\ cycle' = 0 /\ failCycle' = 0
    /\ buf' = NoBuffer /\ out' = Absent
    /\ rendered' = {} /\ fmtFailed' = {} /\ written' = {}
    /\ fsStart' = fs
    /\ UNCHANGED <<envVars, fs, renderVars, typeVars>>

Next ==
    \/ LookupToken
    \/ SendRequest
    \/ DecodeBody
    \/ NextTemplate
    \/ ReturnNil
    \/ ExecuteOK
    \/ ExecuteErr
    \/ ExecutePanic
    \/ FormatOK
    \/ FormatError
    \/ WriteFileOK
    \/ WriteFileErr
    \/ Rerun

Spec == Init /\ [][Next]_vars

\* ------------------------------------------- rendering as a pure function
InitRender ==
    /\ token = "nonempty" /\ response = [status |-> "ok", doc |-> NoDataDoc]
    /\ run = "first" /\ prev = NoPrev /\ Fresh
    /\ fs = [f \in Files |-> Absent] /\ fsStart = fs
    /\ rdoc \in RenderDocs /\ rfile = "" /\ rbuf = NoBuffer
    /\ TypeIdle

\* Execute one template against the document.
ApplyTemplate ==
    /\ rfile = ""
    /\ \E f \in Files :
          /\ rfile' = f
          /\ rbuf' = ExecuteTemplate(f, rdoc).out
    /\ UNCHANGED <<rdoc, typeVars, envVars, run, prev, pc, status, errKind, netCalls,
                   decodes, schema, loopVars, failCycle, buf, out, rendered,
                   fmtFailed, written, fs, fsStart>>

NextRender == ApplyTemplate

SpecRender == InitRender /\ [][NextRender]_vars

\* ---------------------------------------- the resolver as a pure function
InitType ==
    /\ token = "nonempty" /\ response = [status |-> "ok", doc |-> NoDataDoc]
    /\ run = "first" /\ prev = NoPrev /\ Fresh
    /\ fs = [f \in Files |-> Absent] /\ fsStart = fs
    /\ RenderIdle
    /\ tref \in TypeRefs(MaxDepth) /\ tres = <<>> /\ tnn = <<>>

\* {{.type | type}} on tref.
ResolveType ==
    /\ tres = <<>>
    /\ tres' = <<typeString(tref)>>
    /\ UNCHANGED <<tref, tnn, renderVars, envVars, run, prev, pc, status, errKind,
                   netCalls, decodes, schema, loopVars, failCycle, buf, out,
                   rendered, fmtFailed, written, fs, fsStart>>

\* {{.type | type}} on tref wrapped in NON_NULL.
ResolveNonNull ==
    /\ tnn = <<>>
    /\ tnn' = <<typeString(NonNull(tref))>>
    /\ UNCHANGED <<tref, tres, renderVars, envVars, run, prev, pc, status, errKind,
                   netCalls, decodes, schema, loopVars, failCycle, buf, out,
                   rendered, fmtFailed, written, fs, fsStart>>

NextType == ResolveType \/ ResolveNonNull

SpecType == InitType /\ [][NextType]_vars

\* ============================================================== properties
Range(s) == {s[i] : i \in DOMAIN s}
DeclNames(b) == [i \in 1..Len(b.decls) |-> b.decls[i].name]
MemberNames(d) == [i \in 1..Len(d.members) |-> d.members[i].name]
Occurrences(s, x) == Cardinality({i \in DOMAIN s : s[i] = x})
StrictlyAscending(ns) == \A i \in 1..(Len(ns) - 1) : StrLess(ns[i], ns[i + 1])
TypeNamed(doc, n) == CHOOSE t \in Range(doc.types) : t.name = n
LoadFails == response.status \in {"transportError", "malformedJSON"}
\* What the run renders for file f from the document the loader produced.
RenderOf(f) == ExecuteTemplate(f, response.doc)
\* What a completed cycle of this run has put in file f.
PayloadOf(f) ==
    IF f \in fmtFailed THEN Degraded(RenderOf(f).out) ELSE Formatted(RenderOf(f).out)

\* C1: when format.Source rejects the buffer of exactly one template and
\* accepts the other's (and no write fails), the run ends with exit status 0
\* and both files written: the rejected one holds the degraded payload
\* (error comment + raw buffer), the other the formatted buffer; a rejection
\* always hands the degraded payload to the write, never ends the run.
C1_FormatErrorDegrades ==
    /\ (pc = "write" /\ cur \in fmtFailed) => out = Degraded(buf)
    /\ (/\ pc = "done" /\ rendered = Files /\ Cardinality(fmtFailed) = 1
        /\ errKind \notin {"render", "panic", "write"})
       => /\ status = 0 /\ written = Files
          /\ \A f \in fmtFailed : fs[f] = Degraded(RenderOf(f).out)
          /\ \A f \in Files \ fmtFailed : fs[f] = Formatted(RenderOf(f).out)

C1_Witness ==
    /\ pc = "done" /\ status = 0 /\ written = Files
    /\ \E f \in Files :
          /\ fmtFailed = {f} /\ fs[f].kind = "degraded" /\ fs[f].body.decls # <<>>
          /\ \A g \in Files \ {f} : fs[g].kind = "formatted"

\* C2: when loadSchema fails (transport error or a body that is not JSON)
\* the run ends with a non-zero exit status and no template is rendered,
\* formatted or written.
C2_LoadFailureWritesNothing ==
    LoadFails =>
       /\ pc \in {"start", "request", "decode", "done"}
       /\ rendered = {} /\ fmtFailed = {} /\ written = {} /\ cycle = 0
       /\ fs = fsStart /\ schema = <<>>
       /\ pc = "done" => status # 0

C2_Witness ==
    pc = "done" /\ errKind = "decode" /\ response.status = "malformedJSON"
      /\ decodes = 1 /\ status = 1

\* C3 (as stated): with the credential unset or empty, the run fails with a
\* configuration error before any network call and writes no file.
C3_Original ==
    token \in {"unset", "empty"} =>
       /\ netCalls = 0 /\ written = {}
       /\ pc = "done" => errKind = "config"

\* C3 (amended): the request is issued only when the variable is set; with
\* the variable unset the run fails with a configuration error (exit status
\* 1) before any network call and writes no file; only an unset variable is
\* a configuration error (the empty string counts as set).
C3_UnsetTokenFailsBeforeNetwork ==
    /\ token = "unset" =>
          /\ netCalls = 0 /\ decodes = 0 /\ rendered = {} /\ written = {}
          /\ fs = fsStart /\ pc \in {"start", "done"}
          /\ pc = "done" => (status = 1 /\ errKind = "config")
    /\ errKind = "config" => token = "unset"
    /\ (token # "unset" /\ pc \notin {"start", "request"}) => netCalls = 1

C3_Witness == token = "unset" /\ pc = "done" /\ errKind = "config" /\ netCalls = 0

\* C4: a render error or a write error ends the run with a non-zero exit
\* status; no template after the failing one is rendered, formatted or
\* written; on a render error the failing template's file is left as it was;
\* every file written by an earlier cycle keeps the payload written.
C4_RenderOrWriteErrorAborts ==
    /\ \A f \in rendered :
          RenderOf(f).err =>
             /\ pc = "done" /\ status # 0 /\ cur = f
             /\ errKind \in {"render", "panic"}
             /\ f \notin written /\ f \notin fmtFailed /\ fs[f] = fsStart[f]
    /\ errKind \in {"render", "panic", "write"} =>
          /\ pc = "done" /\ status # 0 /\ failCycle = cycle
          /\ cur \notin written
          /\ rendered = Files \ remaining
          /\ \A f \in remaining :
                f \notin rendered \cup fmtFailed \cup written /\ fs[f] = fsStart[f]
    /\ \A f \in written : fs[f] = PayloadOf(f)

C4_Witness ==
    /\ pc = "done" /\ errKind = "render" /\ cycle = 2
    /\ \E f \in Files : written = {f} /\ fs[f].kind = "formatted" /\ cur # f
    /\ fs[cur] = fsStart[cur]

\* C5 (as stated): one request and one decode, then the cycles in the same
\* order in every run: two runs failing at the same cycle have written the
\* same set of files.
C5_Original ==
    /\ netCalls <= 1 /\ decodes <= 1
    /\ (run = "second" /\ pc = "done" /\ failCycle > 0 /\ prev.fail = failCycle)
          => written = prev.written

\* C5 (amended): after exactly one request and one decode the cycles run one
\* after the other, each template at most once, in an order that is not
\* fixed: two runs failing at the same cycle have written the same number
\* of files (one per completed cycle).
C5_SequentialCycles ==
    /\ netCalls <= 1 /\ decodes <= 1
    /\ pc \in {"loop", "execute", "format", "write"} => (netCalls = 1 /\ decodes = 1)
    /\ schema # <<>> => cycle = Cardinality(Files \ remaining)
    /\ rendered \subseteq Files \ remaining /\ written \subseteq rendered
    /\ pc \in {"execute", "format", "write"} =>
          (cur \notin written /\ Cardinality(written) = cycle - 1)
    /\ (pc = "done" /\ failCycle > 0) => Cardinality(written) = failCycle - 1
    /\ (run = "second" /\ pc = "done" /\ failCycle > 0 /\ prev.fail = failCycle)
          => Cardinality(written) = Cardinality(prev.written)

C5_Witness ==
    /\ run = "second" /\ pc = "done" /\ failCycle = 2 /\ prev.fail = 2
    /\ written # prev.written /\ Cardinality(written) = 1

QualifyingNames(doc, Q(_)) == {t.name : t \in {u \in Range(doc.types) : Q(u)}}
Position(s, n) == CHOOSE i \in DOMAIN s : s[i].name = n

\* C6: the declarations of a rendered output are in strict ascending
\* lexicographic order of their names, whatever the order of the schema's
\* type list; the constants of an enum keep the schema's enumValues order.
C6_DeclarationsAscending ==
    rfile # "" =>
       /\ StrictlyAscending(DeclNames(rbuf))
       /\ rfile = "enum.go" =>
             \A d \in Range(rbuf.decls) :
                MemberNames(d) = TypeNamed(rdoc, d.name).enumValues

C6_Witness ==
    /\ rfile = "enum.go" /\ Len(rbuf.decls) >= 2
    /\ \E i, j \in DOMAIN rdoc.types :
          /\ i < j /\ EnumQualifies(rdoc.types[i]) /\ EnumQualifies(rdoc.types[j])
          /\ StrLess(rdoc.types[j].name, rdoc.types[i].name)
    /\ \E d \in Range(rbuf.decls) :
          Len(d.members) = 2 /\ StrLess(d.members[2].name, d.members[1].name)

\* C7: every input field of an INPUT_OBJECT is emitted exactly once; the
\* NON_NULL fields come before all the others; within each group the fields
\* keep their relative order in inputFields.
C7_RequiredFieldsFirst ==
    rfile = "input.go" =>
       \A d \in Range(rbuf.decls) :
          LET fl == TypeNamed(rdoc, d.name).inputFields
              m == d.members
          IN  /\ Len(m) = Len(fl)
              /\ \A i \in DOMAIN fl : Occurrences(MemberNames(d), fl[i].name) = 1
              /\ \A j \in DOMAIN m :
                    m[j].required = IsRequired(fl[Position(fl, m[j].name)])
              /\ \A j, k \in DOMAIN m :
                    j < k =>
                       /\ m[k].required => m[j].required
                       /\ m[j].required = m[k].required =>
                             Position(fl, m[j].name) < Position(fl, m[k].name)

C7_Witness ==
    /\ rfile = "input.go"
    /\ \E d \in Range(rbuf.decls) :
          LET fl == TypeNamed(rdoc, d.name).inputFields
          IN  /\ Len(d.members) = 3 /\ IsOptional(fl[1])
              /\ d.members[1].required /\ d.members[2].required
              /\ ~d.members[3].required

\* C9 (as stated): no type with a reserved name is declared in any rendered
\* output, and every non-reserved type of the relevant kind is declared once.
C9_Original ==
    rfile # "" =>
       /\ \A d \in Range(rbuf.decls) : ~internal(d.name)
       /\ \A t \in Range(rdoc.types) :
             ((IF rfile = "enum.go" THEN IsEnum(t) ELSE IsInputObject(t))
                /\ ~internal(t.name))
               => Occurrences(DeclNames(rbuf), t.name) = 1

\* C9 (amended): enum.go declares exactly the ENUM types whose name is not
\* reserved, each once; input.go declares exactly the INPUT_OBJECT types,
\* each once, reserved names included (its traversal filters on kind only).
C9_KindFilter ==
    /\ rfile = "enum.go" =>
          /\ \A t \in Range(rdoc.types) :
                Occurrences(DeclNames(rbuf), t.name) =
                   (IF IsEnum(t) /\ ~internal(t.name) THEN 1 ELSE 0)
          /\ Len(rbuf.decls) =
                Cardinality(QualifyingNames(rdoc, LAMBDA t : IsEnum(t) /\ ~internal(t.name)))
    /\ rfile = "input.go" =>
          /\ \A t \in Range(rdoc.types) :
                Occurrences(DeclNames(rbuf), t.name) = (IF IsInputObject(t) THEN 1 ELSE 0)
          /\ Len(rbuf.decls) = Cardinality(QualifyingNames(rdoc, IsInputObject))

C9_Witness ==
    /\ rfile = "enum.go"
    /\ \E t \in Range(rdoc.types) : IsEnum(t) /\ internal(t.name)
    /\ \E t \in Range(rdoc.types) : t.name = NameSB
    /\ \E t \in Range(rdoc.types) : IsInputObject(t)
    /\ Len(rbuf.decls) = 1 /\ rbuf.decls[1].name = NameSB

\* NON_NULL directly wrapping NON_NULL somewhere in the reference.
RECURSIVE NonNullOverNonNull(_)
NonNullOverNonNull(t) ==
    /\ t.ofType # <<>>
    /\ \/ t.kind = "NON_NULL" /\ t.ofType[1].kind = "NON_NULL"
       \/ NonNullOverNonNull(t.ofType[1])

\* C8: for a reference X that is a named type or a LIST, type(X) begins
\* with '*' and type(NON_NULL(X)) is type(X) without that first character;
\* the resolver panics exactly when NON_NULL directly wraps NON_NULL.
C8_NonNullStripsMarker ==
    /\ tres # <<>> =>
          /\ tres[1].ok <=> ~NonNullOverNonNull(tref)
          /\ (tres[1].ok /\ tref.kind # "NON_NULL") => Head(tres[1].s) = Star
    /\ tnn # <<>> =>
          /\ tnn[1].ok <=> ~NonNullOverNonNull(NonNull(tref))
          /\ (tres # <<>> /\ tres[1].ok /\ tref.kind # "NON_NULL") =>
                /\ tnn[1].ok
                /\ tnn[1].s = Tail(tres[1].s)
                /\ Len(tnn[1].s) = Len(tres[1].s) - 1

C8_Witness ==
    /\ tref.kind = "LIST" /\ tref.ofType[1].kind = "NON_NULL"
    /\ tres # <<>> /\ tres[1].ok /\ tnn # <<>> /\ tnn[1].ok
    /\ Head(tnn[1].s) = LBracket

IsPermutation(a, b) ==
    /\ Len(a) = Len(b)
    /\ \A x \in Range(a) \cup Range(b) : Occurrences(a, x) = Occurrences(b, x)

\* C10 (as stated): rendering leaves the schema document as the loader
\* produced it: same elements in the same order.
C10_Original == schema # <<>> => schema[1] = response.doc

\* C10 (amended): rendering changes the document at most in the order of
\* data.__schema.types: once a template has been executed the sequence holds
\* the same elements sorted by name, and every template renders the same
\* output from it as from the document the loader produced.
C10_DocumentSortedInPlace ==
    schema # <<>> =>
       /\ schema[1].hasData = response.doc.hasData
       /\ IsPermutation(schema[1].types, response.doc.types)
       /\ rendered = {} => schema[1] = response.doc
       /\ rendered # {} =>
             StrictlyAscending([i \in DOMAIN schema[1].types |-> schema[1].types[i].name])
       /\ \A f \in Files : ExecuteTemplate(f, schema[1]).out = RenderOf(f).out

C10_Witness ==
    /\ pc = "format" /\ cycle = 2 /\ schema # <<>>
    /\ schema[1] # response.doc /\ Len(schema[1].types) >= 2

====
